---- MODULE Spec2Model ----
(***************************************************************************)
(* Model of the Feynman Learning Assistant relay (src/main.py): the        *)
(* in-memory registry active_conversations, the five request handlers and  *)
(* the upstream assistant platform (vapi) they call.                       *)
(*                                                                         *)
(* Scheduling: the handlers are coroutines on one event loop.  The only    *)
(* suspension point in the file is `await request.json()` at the head of   *)
(* delete_conversation; every other statement, the vapi calls included,    *)
(* is synchronous.  So create_assistant, send_message,                     *)
(* get_user_conversations and health_check are one step each, and          *)
(* delete_conversation is two: the request is received and suspends, then  *)
(* it resumes and runs to its response.                                    *)
(***************************************************************************)
EXTENDS Integers, Sequences, FiniteSets, Bags, TLC

VARIABLES
    active_conversations,  \* main.py:40, conversation id -> stored record
    vapi_assistants,       \* upstream: ids of the assistants created
    vapi_conversations,    \* upstream: ids of the conversations that exist
    vapi_deleted,          \* upstream: ids of the conversations deleted
    inflight,              \* bag of the delete requests suspended at request.json()
                           \* (overtaken is history: the same delete, of the
                           \* same id by the same user, has succeeded while
                           \* the request was suspended)
    created_by,            \* history: id -> user_id of the request that made it
    last                   \* history: the request answered last

vars == <<active_conversations, vapi_assistants, vapi_conversations,
          vapi_deleted, inflight, created_by, last>>

----------------------------------------------------------------------------
(* Bounds of the exploration. *)

MaxAssistants == 1      \* assistants the platform creates
MaxInflight == 2        \* delete requests suspended at the same time

(* Identifiers the platform hands out, in the order it hands them out. *)
AssistantIdPool == <<"a1", "a2", "a3", "a4", "a5">>
ConversationIdPool == <<"c1", "c2", "c3", "c4", "c5">>

None == "<None>"     \* Python's None

UserIds == {"", "u1", "u2"}
Topics == {"", "Photosynthesis"}
DifficultyLevels == {"beginner"}
Messages == {"Explain chlorophyll"}

ConversationIds == {ConversationIdPool[i] : i \in 1..MaxAssistants}

(* Request models: the values pydantic lets through to the handlers. *)
NewSession == [topic : Topics, difficulty_level : DifficultyLevels,
               user_id : UserIds]

ConversationInput == [message : Messages,
                      conversation_id : ConversationIds \cup {"", None},
                      user_id : UserIds]

(* The bodies of the delete requests are JSON objects; user_id is what   *)
(* data.get("user_id") gives, None when the object has no such key.      *)
DeleteBodies == [user_id : UserIds \cup {None}]

(* Path parameters never match the empty string. *)
PathUserIds == UserIds \ {""}
PathConversationIds == ConversationIds

----------------------------------------------------------------------------
(* Exceptions and responses. *)

NoExc == [type |-> "none", status_code |-> 0, detail |-> ""]

HTTPException(code, text) ==
    [type |-> "HTTPException", status_code |-> code, detail |-> text]

UpstreamError == "vapi request failed"

VapiException == [type |-> "Exception", status_code |-> 0,
                  detail |-> UpstreamError]

(* str(e): starlette prints an HTTPException as "<status>: <detail>";   *)
(* the status of the answer does not depend on this text.                *)
PyStr(e) ==
    IF e.type = "HTTPException"
    THEN ToString(e.status_code) \o ": " \o e.detail
    ELSE e.detail

(* What a try block ends with: the exception it raised or the value it   *)
(* returned, the registry it leaves and the platform calls it made.      *)
Raised(e, reg, calls) ==
    [exc |-> e, content |-> [none |-> TRUE], reg |-> reg, calls |-> calls]

Returned(content, reg, calls) ==
    [exc |-> NoExc, content |-> content, reg |-> reg, calls |-> calls]

VapiCall(api, cid, role, ok) ==
    [api |-> api, conversation_id |-> cid, role |-> role, ok |-> ok]

(* A slip in the clause: str(e) is left out of the detail. *)
ExceptClause_without_cause(prefix, out) ==
    IF out.exc = NoExc
    THEN [status_code |-> 200, detail |-> "", content |-> out.content]
    ELSE [status_code |-> 500, detail |-> prefix,
          content |-> [none |-> TRUE]]

(* `except Exception as e: raise HTTPException(status_code=500, ...)`.    *)
(* HTTPException is a subclass of Exception, so the clause also receives *)
(* the 400, 403 and 404 the try block raised itself.                     *)
ExceptClause(prefix, out) ==
    IF out.exc = NoExc
    THEN [status_code |-> 200, detail |-> "", content |-> out.content]
    ELSE [status_code |-> 500, detail |-> prefix \o PyStr(out.exc),
          content |-> [none |-> TRUE]]

----------------------------------------------------------------------------
(* The registry operations the handlers perform on active_conversations. *)

(* A slip in the stored record: the topic under "user_id", the user_id  *)
(* under "topic".                                                        *)
StoreConversation_swapped(reg, cid, aid, topic, uid) ==
    [k \in DOMAIN reg \cup {cid} |->
        IF k = cid
        THEN [assistant_id |-> aid, topic |-> uid, user_id |-> topic]
        ELSE reg[k]]

(* main.py:70-74: active_conversations[conversation.id] = {...} *)
StoreConversation(reg, cid, aid, topic, uid) ==
    [k \in DOMAIN reg \cup {cid} |->
        IF k = cid
        THEN [assistant_id |-> aid, topic |-> topic, user_id |-> uid]
        ELSE reg[k]]

(* main.py:152: del active_conversations[conversation_id] *)
RemoveConversation(reg, cid) ==
    [k \in DOMAIN reg \ {cid} |-> reg[k]]

(* A slip in the comparison: a request that gives no user_id passes. *)
IsOwner_or_anonymous(reg, cid, uid) ==
    uid = None \/ reg[cid]["user_id"] = uid

(* main.py:96 and 145: the stored user_id against the caller's *)
IsOwner(reg, cid, uid) ==
    reg[cid]["user_id"] = uid

----------------------------------------------------------------------------
(* The try blocks of the handlers.  The ok flags are the outcomes of the *)
(* platform calls, in the order the block makes them.                    *)

(* A slip in the order: the record is stored, under the assistant's id,  *)
(* before the conversation is created.                                   *)
create_assistant_try_store_early(reg, session, aid, cid, okAssistant, okConversation) ==
    IF ~okAssistant
    THEN Raised(VapiException, reg,
                <<VapiCall("Assistant.create", None, None, FALSE)>>)
    ELSE IF ~okConversation
    THEN Raised(VapiException,
                StoreConversation(reg, aid, aid, session.topic,
                                  session.user_id),
                <<VapiCall("Assistant.create", None, None, TRUE),
                  VapiCall("Conversation.create", None, None, FALSE)>>)
    ELSE Returned([conversation_id |-> cid, assistant_id |-> aid,
                   topic |-> session.topic],
                  StoreConversation(reg, cid, aid, session.topic,
                                    session.user_id),
                  <<VapiCall("Assistant.create", None, None, TRUE),
                    VapiCall("Conversation.create", cid, None, TRUE)>>)

(* main.py:46-80 *)
create_assistant_try(reg, session, aid, cid, okAssistant, okConversation) ==
    IF ~okAssistant
    THEN Raised(VapiException, reg,
                <<VapiCall("Assistant.create", None, None, FALSE)>>)
    ELSE IF ~okConversation
    THEN Raised(VapiException, reg,
                <<VapiCall("Assistant.create", None, None, TRUE),
                  VapiCall("Conversation.create", None, None, FALSE)>>)
    ELSE Returned([conversation_id |-> cid, assistant_id |-> aid,
                   topic |-> session.topic],
                  StoreConversation(reg, cid, aid, session.topic,
                                    session.user_id),
                  <<VapiCall("Assistant.create", None, None, TRUE),
                    VapiCall("Conversation.create", cid, None, TRUE)>>)

(* A slip in the check: an assignment where the comparison should be,   *)
(* the caller becomes the stored user.                                   *)
send_message_try_adopt(reg, input, okUser, okAssistant) ==
    LET cid == input.conversation_id IN
    IF cid = None \/ cid = ""
    THEN Raised(HTTPException(400, "Conversation ID is required"), reg, <<>>)
    ELSE IF cid \notin DOMAIN reg
    THEN Raised(HTTPException(404, "Conversation not found"), reg, <<>>)
    ELSE LET taken == [reg EXCEPT ![cid]["user_id"] = input.user_id] IN
    IF ~okUser
    THEN Raised(VapiException, taken,
                <<VapiCall("Message.create", cid, "user", FALSE)>>)
    ELSE IF ~okAssistant
    THEN Raised(VapiException, taken,
                <<VapiCall("Message.create", cid, "user", TRUE),
                  VapiCall("Message.create", cid, "assistant", FALSE)>>)
    ELSE Returned([response |-> "reply", message_id |-> "m1",
                   conversation_id |-> cid],
                  taken,
                  <<VapiCall("Message.create", cid, "user", TRUE),
                    VapiCall("Message.create", cid, "assistant", TRUE)>>)

(* A slip in the order: the user's message is posted before the owner   *)
(* is checked.                                                           *)
send_message_try_post_first(reg, input, okUser, okAssistant) ==
    LET cid == input.conversation_id IN
    IF cid = None \/ cid = ""
    THEN Raised(HTTPException(400, "Conversation ID is required"), reg, <<>>)
    ELSE IF cid \notin DOMAIN reg
    THEN Raised(HTTPException(404, "Conversation not found"), reg, <<>>)
    ELSE IF ~okUser
    THEN Raised(VapiException, reg,
                <<VapiCall("Message.create", cid, "user", FALSE)>>)
    ELSE IF ~IsOwner(reg, cid, input.user_id)
    THEN Raised(HTTPException(403, "Unauthorized access to conversation"),
                reg, <<VapiCall("Message.create", cid, "user", TRUE)>>)
    ELSE IF ~okAssistant
    THEN Raised(VapiException, reg,
                <<VapiCall("Message.create", cid, "user", TRUE),
                  VapiCall("Message.create", cid, "assistant", FALSE)>>)
    ELSE Returned([response |-> "reply", message_id |-> "m1",
                   conversation_id |-> cid],
                  reg,
                  <<VapiCall("Message.create", cid, "user", TRUE),
                    VapiCall("Message.create", cid, "assistant", TRUE)>>)

(* main.py:89-116 *)
send_message_try(reg, input, okUser, okAssistant) ==
    LET cid == input.conversation_id IN
    IF cid = None \/ cid = ""
    THEN Raised(HTTPException(400, "Conversation ID is required"), reg, <<>>)
    ELSE IF cid \notin DOMAIN reg
    THEN Raised(HTTPException(404, "Conversation not found"), reg, <<>>)
    ELSE IF ~IsOwner(reg, cid, input.user_id)
    THEN Raised(HTTPException(403, "Unauthorized access to conversation"),
                reg, <<>>)
    ELSE IF ~okUser
    THEN Raised(VapiException, reg,
                <<VapiCall("Message.create", cid, "user", FALSE)>>)
    ELSE IF ~okAssistant
    THEN Raised(VapiException, reg,
                <<VapiCall("Message.create", cid, "user", TRUE),
                  VapiCall("Message.create", cid, "assistant", FALSE)>>)
    ELSE Returned([response |-> "reply", message_id |-> "m1",
                   conversation_id |-> cid],
                  reg,
                  <<VapiCall("Message.create", cid, "user", TRUE),
                    VapiCall("Message.create", cid, "assistant", TRUE)>>)

(* A slip in the comprehension: the filter on user_id is missing. *)
get_user_conversations_unfiltered(reg, user_id) ==
    [c \in DOMAIN reg |-> reg[c]]

(* main.py:126-131 *)
get_user_conversations(reg, user_id) ==
    [c \in {k \in DOMAIN reg : reg[k]["user_id"] = user_id} |-> reg[c]]

(* A slip in the check: the owner is not compared, any caller deletes. *)
delete_conversation_try_by_anyone(reg, cid, body, okDelete) ==
    IF cid \notin DOMAIN reg
    THEN Raised(HTTPException(404, "Conversation not found"), reg, <<>>)
    ELSE IF ~okDelete
    THEN Raised(VapiException, reg,
                <<VapiCall("Conversation.delete", cid, None, FALSE)>>)
    ELSE Returned([status |-> "success", message |-> "Conversation deleted"],
                  RemoveConversation(reg, cid),
                  <<VapiCall("Conversation.delete", cid, None, TRUE)>>)

(* A slip at the end: the registry entry is not removed. *)
delete_conversation_try_keep(reg, cid, body, okDelete) ==
    IF cid \notin DOMAIN reg
    THEN Raised(HTTPException(404, "Conversation not found"), reg, <<>>)
    ELSE IF ~IsOwner(reg, cid, body.user_id)
    THEN Raised(HTTPException(403, "Unauthorized access to conversation"),
                reg, <<>>)
    ELSE IF ~okDelete
    THEN Raised(VapiException, reg,
                <<VapiCall("Conversation.delete", cid, None, FALSE)>>)
    ELSE Returned([status |-> "success", message |-> "Conversation deleted"],
                  reg,
                  <<VapiCall("Conversation.delete", cid, None, TRUE)>>)

(* A slip in the order: the registry entry is removed before the        *)
(* platform is asked to delete.                                          *)
delete_conversation_try_remove_first(reg, cid, body, okDelete) ==
    IF cid \notin DOMAIN reg
    THEN Raised(HTTPException(404, "Conversation not found"), reg, <<>>)
    ELSE IF ~IsOwner(reg, cid, body.user_id)
    THEN Raised(HTTPException(403, "Unauthorized access to conversation"),
                reg, <<>>)
    ELSE IF ~okDelete
    THEN Raised(VapiException, RemoveConversation(reg, cid),
                <<VapiCall("Conversation.delete", cid, None, FALSE)>>)
    ELSE Returned([status |-> "success", message |-> "Conversation deleted"],
                  RemoveConversation(reg, cid),
                  <<VapiCall("Conversation.delete", cid, None, TRUE)>>)

(* main.py:139-154, from the point where request.json() has answered *)
delete_conversation_try(reg, cid, body, okDelete) ==
    IF cid \notin DOMAIN reg
    THEN Raised(HTTPException(404, "Conversation not found"), reg, <<>>)
    ELSE IF ~IsOwner(reg, cid, body.user_id)
    THEN Raised(HTTPException(403, "Unauthorized access to conversation"),
                reg, <<>>)
    ELSE IF ~okDelete
    THEN Raised(VapiException, reg,
                <<VapiCall("Conversation.delete", cid, None, FALSE)>>)
    ELSE Returned([status |-> "success", message |-> "Conversation deleted"],
                  RemoveConversation(reg, cid),
                  <<VapiCall("Conversation.delete", cid, None, TRUE)>>)

----------------------------------------------------------------------------
(* The platform: what its calls do to its own state. *)

(* The answers a platform call can get: a call may always fail, and it   *)
(* can succeed only on something the platform has.                       *)
PlatformAnswers(exists) == IF exists THEN BOOLEAN ELSE {FALSE}

OkCalls(calls, api) ==
    {i \in 1..Len(calls) : calls[i].api = api /\ calls[i].ok}

NextAssistantId == AssistantIdPool[Cardinality(vapi_assistants) + 1]

NextConversationId ==
    ConversationIdPool[Cardinality(vapi_conversations \cup vapi_deleted) + 1]

(* The platform creates no more assistants than the bound allows: past  *)
(* it Assistant.create fails.                                            *)
AssistantQuota == Cardinality(vapi_assistants) < MaxAssistants

Idle == [idle |-> TRUE]

(* The suspended requests once the delete `done` has succeeded: those   *)
(* for the same id by the same user are marked overtaken.                *)
Overtake(bag, done) ==
    LET same(e) == /\ e.conversation_id = done.conversation_id
                   /\ e.body = done.body
        mark(e) == IF same(e) THEN [e EXCEPT !.overtaken = TRUE] ELSE e
        copies(e) == IF e \in BagToSet(bag) THEN bag[e] ELSE 0
    IN  [t \in {mark(e) : e \in BagToSet(bag)} |->
            IF same(t)
            THEN copies(t) + copies([t EXCEPT !.overtaken = FALSE])
            ELSE copies(t)]

Answer(op, req, out, prefix) ==
    [op |-> op, req |-> req, before |-> active_conversations,
     exc |-> out.exc, calls |-> out.calls,
     response |-> ExceptClause(prefix, out)]

----------------------------------------------------------------------------
Init ==
    /\ active_conversations = <<>>
    /\ vapi_assistants = {}
    /\ vapi_conversations = {}
    /\ vapi_deleted = {}
    /\ inflight = EmptyBag
    /\ created_by = <<>>
    /\ last = [op |-> "none", req |-> Idle, before |-> <<>>, exc |-> NoExc,
               calls |-> <<>>,
               response |-> [status_code |-> 0, detail |-> "",
                             content |-> [none |-> TRUE]]]

(* POST /create_assistant *)
CreateAssistant ==
    \E session \in NewSession :
    \E okAssistant \in PlatformAnswers(AssistantQuota) :
    \E okConversation \in PlatformAnswers(okAssistant) :
        /\ LET aid == NextAssistantId
               cid == NextConversationId
               out == create_assistant_try(active_conversations, session,
                                           aid, cid, okAssistant,
                                           okConversation)
           IN  /\ active_conversations' = out.reg
               /\ vapi_assistants' =
                    IF OkCalls(out.calls, "Assistant.create") # {}
                    THEN vapi_assistants \cup {aid} ELSE vapi_assistants
               /\ vapi_conversations' =
                    IF OkCalls(out.calls, "Conversation.create") # {}
                    THEN vapi_conversations \cup {cid}
                    ELSE vapi_conversations
               /\ created_by' =
                    IF out.exc = NoExc
                    THEN [k \in DOMAIN created_by
                                  \cup {out.content.conversation_id} |->
                            IF k = out.content.conversation_id
                            THEN session.user_id ELSE created_by[k]]
                    ELSE created_by
               /\ last' = Answer("create_assistant", session, out,
                                 "Failed to create assistant: ")
        /\ UNCHANGED <<vapi_deleted, inflight>>

(* POST /send_message *)
SendMessage ==
    \E input \in ConversationInput :
    \E okUser \in PlatformAnswers(input.conversation_id \in vapi_conversations) :
    \E okAssistant \in PlatformAnswers(okUser) :
        /\ LET out == send_message_try(active_conversations, input,
                                       okUser, okAssistant)
           IN  /\ active_conversations' = out.reg
               /\ last' = Answer("send_message", input, out,
                                 "Failed to process message: ")
        /\ UNCHANGED <<vapi_assistants, vapi_conversations, vapi_deleted,
                       inflight, created_by>>

(* GET /conversations/{user_id} *)
GetUserConversations ==
    \E user_id \in PathUserIds :
        /\ last' = Answer("get_user_conversations", [user_id |-> user_id],
                          Returned([conversations |->
                                      get_user_conversations(
                                          active_conversations, user_id)],
                                   active_conversations, <<>>),
                          "Failed to get conversations: ")
        /\ UNCHANGED <<active_conversations, vapi_assistants,
                       vapi_conversations, vapi_deleted,
                       inflight, created_by>>

(* DELETE /conversation/{conversation_id}: the handler starts and         *)
(* suspends at `await request.json()` (main.py:139).                     *)
DeleteReceive ==
    \E cid \in PathConversationIds, body \in DeleteBodies :
        /\ BagCardinality(inflight) < MaxInflight
        /\ inflight' = inflight
                          (+) SetToBag({[conversation_id |-> cid,
                                         body |-> body,
                                         overtaken |-> FALSE]})
        /\ UNCHANGED <<active_conversations, vapi_assistants,
                       vapi_conversations, vapi_deleted,
                       created_by, last>>

(* DELETE /conversation/{conversation_id}: the handler resumes and runs  *)
(* main.py:139-157 to its response.                                      *)
DeleteResume ==
    \E request \in BagToSet(inflight) :
    \E okDelete \in PlatformAnswers(request.conversation_id
                                       \in vapi_conversations) :
        /\ LET cid == request.conversation_id
               out == delete_conversation_try(
                          active_conversations, cid, request.body, okDelete)
               deleted == OkCalls(out.calls, "Conversation.delete") # {}
           IN  /\ active_conversations' = out.reg
               /\ vapi_conversations' =
                    IF deleted THEN vapi_conversations \ {cid}
                    ELSE vapi_conversations
               /\ vapi_deleted' =
                    IF deleted THEN vapi_deleted \cup {cid}
                    ELSE vapi_deleted
               /\ last' = Answer("delete_conversation",
                                 [conversation_id |-> cid,
                                  user_id |-> request.body.user_id,
                                  body |-> request.body,
                                  overtaken |-> request.overtaken],
                                 out, "Failed to delete conversation: ")
               /\ inflight' =
                    IF deleted
                    THEN Overtake(inflight (-) SetToBag({request}), request)
                    ELSE inflight (-) SetToBag({request})
        /\ UNCHANGED <<vapi_assistants, created_by>>

(* GET /health *)
HealthCheck ==
    /\ last' = [op |-> "health_check", req |-> Idle,
                before |-> active_conversations, exc |-> NoExc,
                calls |-> <<>>,
                response |-> [status_code |-> 200, detail |-> "",
                              content |-> [status |-> "healthy"]]]
    /\ UNCHANGED <<active_conversations, vapi_assistants,
                   vapi_conversations, vapi_deleted,
                   inflight, created_by>>

Next ==
    \/ CreateAssistant
    \/ SendMessage
    \/ GetUserConversations
    \/ DeleteReceive
    \/ DeleteResume
    \/ HealthCheck

Spec == Init /\ [][Next]_vars

----------------------------------------------------------------------------
(* Vocabulary of the properties.  last.before is the registry the        *)
(* request answered last has found; the registry changes only in a step  *)
(* that also sets last, so active_conversations is the registry that     *)
(* request has left.                                                     *)

Status == last.response.status_code

Succeeded == Status = 200

Listing(reg, u) == DOMAIN get_user_conversations(reg, u)

FailedCalls == {i \in 1..Len(last.calls) : ~last.calls[i].ok}

(* The request answered last names a conversation of the registry. *)
Known == last.req.conversation_id \in DOMAIN last.before

(* ... and its user_id is not the one stored with that conversation. *)
NotTheOwner ==
    /\ Known
    /\ last.before[last.req.conversation_id].user_id # last.req.user_id

----------------------------------------------------------------------------
(* C1: a conversation of the registry is in the listing of user u        *)
(* exactly when u is the user_id of the create_assistant request that    *)
(* produced it; the id a successful create_assistant returns is at once  *)
(* in its user's listing and in nobody else's; and what                  *)
(* get_user_conversations answers is the set of the registry's           *)
(* conversations that the asking user created.                           *)
C1_ListedForOwnerOnly ==
    /\ \A c \in DOMAIN active_conversations : \A u \in UserIds :
          c \in Listing(active_conversations, u) <=> u = created_by[c]
    /\ (last.op = "create_assistant" /\ Succeeded) =>
          \A u \in UserIds :
              last.response.content.conversation_id
                    \in Listing(active_conversations, u)
                <=> u = last.req.user_id
    /\ last.op = "get_user_conversations" =>
          DOMAIN last.response.content.conversations
            = {c \in DOMAIN active_conversations :
                   created_by[c] = last.req.user_id}

(* A user has asked for the listing while the registry held a            *)
(* conversation that user created, and the answer shows it.              *)
C1_Witness ==
    /\ last.op = "get_user_conversations"
    /\ DOMAIN last.response.content.conversations # {}
    /\ \E c \in DOMAIN active_conversations :
          created_by[c] = last.req.user_id

(* C2: send_message on a conversation of the registry by a user_id that  *)
(* is not the stored one is answered 403.                                *)
C2_NotOwnerIs403 ==
    (last.op = "send_message" /\ NotTheOwner) => Status = 403

(* C3: send_message with a non-empty conversation_id that is not in the  *)
(* registry is answered 404.                                             *)
C3_UnknownIs404 ==
    (/\ last.op = "send_message"
     /\ last.req.conversation_id \notin {"", None}
     /\ ~Known) => Status = 404

(* C4: delete_conversation on an id that is not in the registry is       *)
(* answered 404, never a success; a deleted id is in no listing, and     *)
(* deleting it again is answered 404.                                    *)
C4_DeleteUnknownIs404 ==
    /\ (last.op = "delete_conversation" /\ ~Known) => Status = 404
    /\ \A c \in vapi_deleted : \A u \in UserIds :
          c \notin Listing(active_conversations, u)

(* C5: delete_conversation of a conversation of the registry by a        *)
(* user_id that is not the stored one is answered 403, calls the         *)
(* platform not at all and leaves the registry as it was.                *)
C5_DeleteNotOwnerIs403 ==
    (last.op = "delete_conversation" /\ NotTheOwner) =>
        /\ Status = 403
        /\ last.calls = <<>>
        /\ active_conversations = last.before

(* C6: delete_conversation changes the registry only when the            *)
(* platform's Conversation.delete has succeeded; when that call fails    *)
(* the request is answered 500 and the registry is as it was.            *)
C6_RemoveAfterUpstreamDelete ==
    last.op = "delete_conversation" =>
        /\ FailedCalls # {} =>
              Status = 500 /\ active_conversations = last.before
        /\ active_conversations # last.before =>
              OkCalls(last.calls, "Conversation.delete") # {}

(* The owner's delete has reached the platform, which refused it. *)
C6_Witness ==
    /\ last.op = "delete_conversation"
    /\ FailedCalls # {}
    /\ last.req.conversation_id \in DOMAIN active_conversations

(* C7: a create_assistant request that fails, at Assistant.create or at  *)
(* Conversation.create, leaves the registry and every listing as they    *)
(* were.                                                                 *)
C7_CreateAllOrNothing ==
    (last.op = "create_assistant" /\ ~Succeeded) =>
        /\ FailedCalls # {}
        /\ active_conversations = last.before
        /\ \A u \in UserIds :
              Listing(active_conversations, u) = Listing(last.before, u)

(* Conversation.create has failed after Assistant.create succeeded. *)
C7_Witness ==
    /\ last.op = "create_assistant"
    /\ Len(last.calls) = 2
    /\ last.calls[1].ok /\ ~last.calls[2].ok

(* C8: a send_message request that names no conversation of the          *)
(* registry, or one of another user, makes no platform call.             *)
C8_NoUpstreamWhenUnauthorized ==
    (last.op = "send_message" /\ (~Known \/ NotTheOwner)) =>
        last.calls = <<>>

(* A user has sent a message to another user's conversation. *)
C8_Witness ==
    /\ last.op = "send_message"
    /\ NotTheOwner
    /\ last.calls = <<>>

(* C9: every conversation of the registry has a non-empty user_id and a  *)
(* non-empty assistant_id, and a create_assistant request with an empty  *)
(* topic or an empty user_id is refused and stores nothing.              *)
C9_NonEmptyOwner ==
    /\ \A c \in DOMAIN active_conversations :
          /\ active_conversations[c].user_id # ""
          /\ active_conversations[c].assistant_id # ""
    /\ (/\ last.op = "create_assistant"
        /\ (last.req.topic = "" \/ last.req.user_id = "")) =>
          ~Succeeded /\ active_conversations = last.before

(* C10: send_message on a conversation that was created and is not yet   *)
(* deleted, by the user_id that created it, is never refused as unknown  *)
(* or unauthorized, and is answered 200 unless a platform call failed.   *)
C10_OwnerPassesAuthorization ==
    (/\ last.op = "send_message"
     /\ last.req.conversation_id \in DOMAIN created_by
     /\ last.req.conversation_id \notin vapi_deleted
     /\ created_by[last.req.conversation_id] = last.req.user_id) =>
        /\ last.exc.type # "HTTPException"
        /\ Status \notin {403, 404}
        /\ Succeeded \/ FailedCalls # {}

(* The creator has sent a message and both platform calls succeeded. *)
C10_Witness ==
    /\ last.op = "send_message"
    /\ last.req.conversation_id \in DOMAIN created_by
    /\ created_by[last.req.conversation_id] = last.req.user_id
    /\ Len(last.calls) = 2
    /\ FailedCalls = {}
    /\ Succeeded

(* C11: of two delete_conversation requests of the owner for the same    *)
(* conversation that are in progress together, the one that resumes      *)
(* after the other has succeeded does not succeed, calls the platform    *)
(* not at all, leaves the registry as it found it and is answered 404.   *)
C11_OvertakenDeleteIs404 ==
    (/\ last.op = "delete_conversation"
     /\ last.req.overtaken
     /\ last.req.user_id = created_by[last.req.conversation_id]) =>
        /\ ~Succeeded
        /\ last.calls = <<>>
        /\ active_conversations = last.before
        /\ Status = 404

(* C12: send_message with a conversation_id that is missing or empty is  *)
(* answered 400, before the registry is read and without a platform      *)
(* call.                                                                 *)
C12_MissingIdIs400 ==
    (/\ last.op = "send_message"
     /\ last.req.conversation_id \in {"", None}) =>
        /\ Status = 400
        /\ last.calls = <<>>

(* C13: a request in which a platform call has failed is answered 500,   *)
(* with a detail that ends in the platform's error message; it is never  *)
(* answered as a success.                                                *)
C13_UpstreamFailureIs500 ==
    FailedCalls # {} =>
        /\ Status = 500
        /\ last.response.detail
             \in {prefix \o UpstreamError :
                    prefix \in {"Failed to create assistant: ",
                                "Failed to process message: ",
                                "Failed to delete conversation: "}}

(* The assistant's reply has failed after the user's message was taken. *)
C13_Witness ==
    /\ last.op = "send_message"
    /\ Len(last.calls) = 2
    /\ last.calls[1].ok /\ ~last.calls[2].ok

C16_RegistryMatchesPlatform ==
    inflight = EmptyBag =>
        /\ DOMAIN active_conversations = vapi_conversations
        /\ DOMAIN active_conversations \cap vapi_deleted = {}

(* A delete has gone through and nothing is in progress. *)
C16_Witness ==
    /\ inflight = EmptyBag
    /\ last.op = "delete_conversation"
    /\ Succeeded
    /\ vapi_deleted # {}

(* C17: a delete_conversation request whose body has no user_id calls    *)
(* the platform not at all, is not answered as a success and leaves the  *)
(* registry as it found it.                                              *)
C17_NoUserIdNeverDeletes ==
    (last.op = "delete_conversation" /\ last.req.user_id = None) =>
        /\ last.calls = <<>>
        /\ ~Succeeded
        /\ active_conversations = last.before

(* Such a request has been answered for a stored conversation. *)
C17_Witness ==
    /\ last.op = "delete_conversation"
    /\ last.req.user_id = None
    /\ Known

====
